---- MODULE Spec2Model ----
(***************************************************************************)
(* Model of json_comments::StripComments (src/src/lib.rs): a Read adapter   *)
(* that scans every chunk pulled from the wrapped source with a seven-state *)
(* byte transducer and overwrites comment bytes with spaces in place.       *)
(***************************************************************************)
EXTENDS Integers, Sequences, FiniteSets, TLC

\* ---- byte values (u8) the transducer distinguishes ----
QUOTE == 34
BACKSLASH == 92
SLASH == 47
STAR == 42
HASH == 35
NEWLINE == 10
SPACE == 32
LETTER == 97

\* ---- bounds ----
\* longest input over all eight byte classes
MaxLen == 3
\* longest input made of '/', '*' and a letter only
MaxBlockLen == 6
\* longest input made of '"', '\', '/' and '#' only
MaxStrLen == 5
\* longest input made of '/', '*', '#' and newline only
MaxCommentLen == 6
\* calls that return Ok(0) or Err after which the caller stops reading
MaxFinals == 2
\* calls in which the wrapped source itself fails
MaxSrcErr == 1

Bytes == {QUOTE, BACKSLASH, SLASH, STAR, HASH, NEWLINE, SPACE, LETTER}
BlockBytes == {SLASH, STAR, LETTER}
StrBytes == {QUOTE, BACKSLASH, SLASH, HASH}
CommentBytes == {SLASH, STAR, HASH, NEWLINE}

SeqsUpTo(S, n) == UNION {[1..k -> S] : k \in 0..n}

\* contents of the wrapped source
Inputs == SeqsUpTo(Bytes, MaxLen) \cup SeqsUpTo(BlockBytes, MaxBlockLen)
            \cup SeqsUpTo(StrBytes, MaxStrLen)

States == {"Top", "InString", "StringEscape", "InComment", "InBlockComment",
           "MaybeCommentEnd", "InLineComment"}

\* another ErrorKind in place of InvalidData
invalid_input == "InvalidInput"

\* the value produced by the invalid_data! macro
invalid_data == "InvalidData"
\* an error of the wrapped source's own
SourceError == "SourceError"

\* ---- the per-byte functions: each returns the new state and the value
\* ---- left in the byte it was given (c: &mut u8)
top(c) ==
  IF c = QUOTE THEN [state |-> "InString", c |-> c]
  ELSE IF c = SLASH THEN [state |-> "InComment", c |-> SPACE]
  ELSE IF c = HASH THEN [state |-> "InLineComment", c |-> SPACE]
  ELSE [state |-> "Top", c |-> c]

\* in_string that lets '#' open a line comment inside a string
in_string_hash(c) ==
  IF c = QUOTE THEN "Top"
  ELSE IF c = BACKSLASH THEN "StringEscape"
  ELSE IF c = HASH THEN "InLineComment"
  ELSE "InString"

in_string(c) ==
  IF c = QUOTE THEN "Top"
  ELSE IF c = BACKSLASH THEN "StringEscape"
  ELSE "InString"

\* in_comment that lets the slash through when no comment follows
in_comment_lenient(c) ==
  IF c = STAR THEN [ok |-> TRUE, state |-> "InBlockComment", c |-> SPACE]
  ELSE IF c = SLASH THEN [ok |-> TRUE, state |-> "InLineComment", c |-> SPACE]
  ELSE [ok |-> TRUE, state |-> "Top", c |-> c]

\* in_comment that blanks the byte before it looks at it
in_comment_blank_first(c) ==
  IF c = STAR THEN [ok |-> TRUE, state |-> "InBlockComment", c |-> SPACE]
  ELSE IF c = SLASH THEN [ok |-> TRUE, state |-> "InLineComment", c |-> SPACE]
  ELSE [ok |-> FALSE, state |-> "InComment", c |-> SPACE]

in_comment(c) ==
  IF c = STAR THEN [ok |-> TRUE, state |-> "InBlockComment", c |-> SPACE]
  ELSE IF c = SLASH THEN [ok |-> TRUE, state |-> "InLineComment", c |-> SPACE]
  ELSE [ok |-> FALSE, state |-> "InComment", c |-> c]

in_block_comment(c) ==
  IF c = STAR THEN [state |-> "MaybeCommentEnd", c |-> SPACE]
  ELSE [state |-> "InBlockComment", c |-> SPACE]

maybe_comment_end(c) ==
  IF c = SLASH THEN [state |-> "Top", c |-> SPACE]
  ELSE [state |-> "InBlockComment", c |-> c]

\* in_line_comment that blanks with NUL instead of a space
in_line_comment_nul(c) ==
  IF c = NEWLINE THEN [state |-> "Top", c |-> c]
  ELSE [state |-> "InLineComment", c |-> 0]

\* in_line_comment that blanks the closing newline too
in_line_comment_blank_newline(c) ==
  IF c = NEWLINE THEN [state |-> "Top", c |-> SPACE]
  ELSE [state |-> "InLineComment", c |-> SPACE]

in_line_comment(c) ==
  IF c = NEWLINE THEN [state |-> "Top", c |-> c]
  ELSE [state |-> "InLineComment", c |-> SPACE]

\* the match with StringEscape sent through in_string
Step_escape_as_string(st, c) ==
  CASE st = "Top" -> [ok |-> TRUE, state |-> top(c).state, c |-> top(c).c]
    [] st \in {"InString", "StringEscape"} -> [ok |-> TRUE, state |-> in_string(c), c |-> c]
    [] st = "InComment" -> in_comment(c)
    [] st = "InBlockComment" ->
         [ok |-> TRUE, state |-> in_block_comment(c).state, c |-> in_block_comment(c).c]
    [] st = "MaybeCommentEnd" ->
         [ok |-> TRUE, state |-> maybe_comment_end(c).state, c |-> maybe_comment_end(c).c]
    [] st = "InLineComment" ->
         [ok |-> TRUE, state |-> in_line_comment(c).state, c |-> in_line_comment(c).c]

\* the match on self.state inside the loop of read()
Step(st, c) ==
  CASE st = "Top" -> [ok |-> TRUE, state |-> top(c).state, c |-> top(c).c]
    [] st = "InString" -> [ok |-> TRUE, state |-> in_string(c), c |-> c]
    [] st = "StringEscape" -> [ok |-> TRUE, state |-> "InString", c |-> c]
    [] st = "InComment" -> in_comment(c)
    [] st = "InBlockComment" ->
         [ok |-> TRUE, state |-> in_block_comment(c).state, c |-> in_block_comment(c).c]
    [] st = "MaybeCommentEnd" ->
         [ok |-> TRUE, state |-> maybe_comment_end(c).state, c |-> maybe_comment_end(c).c]
    [] st = "InLineComment" ->
         [ok |-> TRUE, state |-> in_line_comment(c).state, c |-> in_line_comment(c).c]

\* the for loop over buf[..count]: stops at the first failing byte, leaving
\* self.state as it was at that byte, the byte as the failing function left
\* it and the rest of the buffer as inner.read wrote it
RECURSIVE Scan(_, _, _)
Scan(st, b, i) ==
  IF i > Len(b)
  THEN [state |-> st, buf |-> b, ok |-> TRUE, at |-> 0, steps |-> <<>>]
  ELSE LET r == Step(st, b[i]) IN
       IF ~r.ok
       THEN [state |-> st, buf |-> [b EXCEPT ![i] = r.c], ok |-> FALSE,
             at |-> i, steps |-> <<>>]
       ELSE LET rest == Scan(r.state, [b EXCEPT ![i] = r.c], i + 1) IN
            [rest EXCEPT !.steps =
               <<[pre |-> st, c |-> b[i], post |-> r.state, e |-> r.c]>> \o @]

\* the end-of-stream test without the InLineComment exemption
EndCheckFails_top_only(st) == st # "Top"

\* the end-of-stream test of read(): TRUE when the call fails
EndCheckFails(st) == st # "Top" /\ st # "InLineComment"

\* values returned by read()
Ok(n) == [kind |-> "Ok", n |-> n, err |-> "None", at |-> 0]
Err(e, at) == [kind |-> "Err", n |-> 0, err |-> e, at |-> at]

\* read() that scans every chunk from Top instead of from self.state
ReadChunk_from_top(st, chunk) ==
  IF Len(chunk) > 0
  THEN LET s == Scan("Top", chunk, 1) IN
       [state |-> s.state, buf |-> s.buf, steps |-> s.steps, checked |-> FALSE,
        result |-> IF s.ok THEN Ok(Len(chunk)) ELSE Err(invalid_data, s.at)]
  ELSE [state |-> st, buf |-> chunk, steps |-> <<>>, checked |-> TRUE,
        result |-> IF EndCheckFails(st) THEN Err(invalid_data, 0) ELSE Ok(0)]

\* read() that falls back to Top whenever it returns its own error
ReadChunk_reset_on_error(st, chunk) ==
  IF Len(chunk) > 0
  THEN LET s == Scan(st, chunk, 1) IN
       [state |-> IF s.ok THEN s.state ELSE "Top", buf |-> s.buf,
        steps |-> s.steps, checked |-> FALSE,
        result |-> IF s.ok THEN Ok(Len(chunk)) ELSE Err(invalid_data, s.at)]
  ELSE [state |-> "Top", buf |-> chunk, steps |-> <<>>, checked |-> TRUE,
        result |-> IF EndCheckFails(st) THEN Err(invalid_data, 0) ELSE Ok(0)]

\* read() once inner.read has returned Ok(Len(chunk)) and written chunk;
\* checked tells whether the end-of-stream test was evaluated
ReadChunk(st, chunk) ==
  IF Len(chunk) > 0
  THEN LET s == Scan(st, chunk, 1) IN
       [state |-> s.state, buf |-> s.buf, steps |-> s.steps, checked |-> FALSE,
        result |-> IF s.ok THEN Ok(Len(chunk)) ELSE Err(invalid_data, s.at)]
  ELSE [state |-> st, buf |-> chunk, steps |-> <<>>, checked |-> TRUE,
        result |-> IF EndCheckFails(st) THEN Err(invalid_data, 0) ELSE Ok(0)]

VARIABLES
  src,          \* inner: the bytes the wrapped source holds
  pos,          \* inner: how many of them it has delivered
  state,        \* self.state
  pulled,       \* buf[..count] as inner.read wrote it in the last call
  buf,          \* buf[..count] when the last call returned
  result,       \* what the last call returned
  out,          \* the bytes the caller received from successful calls
  hist,         \* one record per completed transducer step
  finals,       \* how many calls ended the stream (Ok(0) or Err) so far
  lexErrs,      \* how many calls returned the adapter's own error
  endChecks,    \* how many calls evaluated the end-of-stream test
  sawEmptyBuf,  \* some call was made with an empty buffer
  srcErrs       \* how many calls the wrapped source failed

vars == <<src, pos, state, pulled, buf, result, out, hist, finals, lexErrs,
          endChecks, sawEmptyBuf, srcErrs>>

Init ==
  /\ src \in Inputs
  /\ pos = 0
  /\ state = "Top"
  /\ pulled = <<>>
  /\ buf = <<>>
  /\ result = [kind |-> "None", n |-> 0, err |-> "None", at |-> 0]
  /\ out = <<>>
  /\ hist = <<>>
  /\ finals = 0
  /\ lexErrs = 0
  /\ endChecks = 0
  /\ sawEmptyBuf = FALSE
  /\ srcErrs = 0

IsFinal(r) == r.kind = "Err" \/ (r.kind = "Ok" /\ r.n = 0)

\* the counts inner.read may return for a buffer that is empty or not
PullCounts(emptyBuf) ==
  IF emptyBuf \/ pos = Len(src) THEN {0} ELSE 1..(Len(src) - pos)

\* read(buf) that pulls a second time and drops what the second pull wrote
Read_pull_again(emptyBuf, n) ==
  /\ finals < MaxFinals
  /\ n \in PullCounts(emptyBuf)
  /\ LET chunk == SubSeq(src, pos + 1, pos + n)
         r == ReadChunk(state, chunk)
     IN /\ pos' = IF pos + 2 * n <= Len(src) THEN pos + 2 * n ELSE Len(src)
        /\ pulled' = chunk
        /\ state' = r.state
        /\ buf' = r.buf
        /\ result' = r.result
        /\ hist' = hist \o r.steps
        /\ out' = IF r.result.kind = "Ok" THEN out \o r.buf ELSE out
        /\ finals' = IF IsFinal(r.result) THEN finals + 1 ELSE finals
        /\ lexErrs' = IF r.result.kind = "Err" THEN lexErrs + 1 ELSE lexErrs
        /\ endChecks' = IF r.checked THEN endChecks + 1 ELSE endChecks
  /\ sawEmptyBuf' = (sawEmptyBuf \/ emptyBuf)
  /\ UNCHANGED <<src, srcErrs>>

\* read(buf) where inner.read returns Ok(n)
Read(emptyBuf, n) ==
  /\ finals < MaxFinals
  /\ n \in PullCounts(emptyBuf)
  /\ LET chunk == SubSeq(src, pos + 1, pos + n)
         r == ReadChunk(state, chunk)
     IN /\ pos' = pos + n
        /\ pulled' = chunk
        /\ state' = r.state
        /\ buf' = r.buf
        /\ result' = r.result
        /\ hist' = hist \o r.steps
        /\ out' = IF r.result.kind = "Ok" THEN out \o r.buf ELSE out
        /\ finals' = IF IsFinal(r.result) THEN finals + 1 ELSE finals
        /\ lexErrs' = IF r.result.kind = "Err" THEN lexErrs + 1 ELSE lexErrs
        /\ endChecks' = IF r.checked THEN endChecks + 1 ELSE endChecks
  /\ sawEmptyBuf' = (sawEmptyBuf \/ emptyBuf)
  /\ UNCHANGED <<src, srcErrs>>

\* read(buf) that reports a failure of inner.read as its own invalid data
ReadSourceError_reinterpreted ==
  /\ finals < MaxFinals
  /\ srcErrs < MaxSrcErr
  /\ srcErrs' = srcErrs + 1
  /\ result' = Err(invalid_data, 0)
  /\ pulled' = <<>>
  /\ buf' = <<>>
  /\ finals' = finals + 1
  /\ UNCHANGED <<src, pos, state, out, hist, lexErrs, endChecks, sawEmptyBuf>>

\* read(buf) where inner.read returns Err: the ? operator returns it at once
ReadSourceError ==
  /\ finals < MaxFinals
  /\ srcErrs < MaxSrcErr
  /\ srcErrs' = srcErrs + 1
  /\ result' = Err(SourceError, 0)
  /\ pulled' = <<>>
  /\ buf' = <<>>
  /\ finals' = finals + 1
  /\ UNCHANGED <<src, pos, state, out, hist, lexErrs, endChecks, sawEmptyBuf>>

Next ==
  \/ \E emptyBuf \in BOOLEAN, n \in 0..Len(src) : Read(emptyBuf, n)
  \/ ReadSourceError

Spec == Init /\ [][Next]_vars

\* a new adapter over a source that holds comment syntax only
InitComment ==
  /\ src \in SeqsUpTo(CommentBytes, MaxCommentLen)
  /\ pos = 0
  /\ state = "Top"
  /\ pulled = <<>>
  /\ buf = <<>>
  /\ result = [kind |-> "None", n |-> 0, err |-> "None", at |-> 0]
  /\ out = <<>>
  /\ hist = <<>>
  /\ finals = 0
  /\ lexErrs = 0
  /\ endChecks = 0
  /\ sawEmptyBuf = FALSE
  /\ srcErrs = 0

SpecComment == InitComment /\ [][Next]_vars

\* the caller keeps calling read() until the stream has ended MaxFinals times
LiveSpec == Spec /\ WF_vars(Next)

TypeOK ==
  /\ pos \in 0..Len(src)
  /\ state \in States
  /\ Len(buf) = Len(pulled)
  /\ result.kind \in {"None", "Ok", "Err"}

\* ---- helpers for the properties ----
IsLexErr(r) == r.kind = "Err" /\ r.err # SourceError
IsEofErr(r) == IsLexErr(r) /\ r.at = 0
IsBadByteErr(r) == IsLexErr(r) /\ r.at > 0
\* the last n completed steps
LastSteps(n) == SubSeq(hist, Len(hist) - n + 1, Len(hist))

\* C2: a successful read() returns the count the source returned, every
\* returned byte is the source's byte at that position or a space, and while
\* no call has failed the output is as long as the input delivered so far
\* (so a stream read to its end without error has len(output) = len(input)).
C2_CountAndPositionPreserved ==
  /\ result.kind = "Ok" =>
       /\ result.n = Len(pulled)
       /\ Len(buf) = Len(pulled)
       /\ \A i \in 1..Len(buf) : buf[i] \in {pulled[i], SPACE}
  /\ lexErrs = 0 =>
       /\ Len(out) = pos
       /\ \A i \in 1..pos : out[i] \in {src[i], SPACE}

\* C2 witness: a whole stream of three bytes or more was read in several
\* pulls to a clean end, with some bytes blanked and some kept
C2_Witness ==
  /\ result = Ok(0) /\ pos = Len(src) /\ Len(src) >= 3 /\ lexErrs = 0
  /\ Len(hist) = Len(src)
  /\ \E i \in 1..Len(out) : out[i] = SPACE /\ src[i] # SPACE
  /\ \E i \in 1..Len(out) : out[i] = src[i] /\ src[i] # SPACE

\* C5: every byte read in InString or StringEscape is emitted unchanged and
\* leaves the state among Top, InString and StringEscape, never a comment
\* state.
C5_StringOpacity ==
  \A k \in DOMAIN hist :
    hist[k].pre \in {"InString", "StringEscape"} =>
      /\ hist[k].e = hist[k].c
      /\ hist[k].post \in {"Top", "InString", "StringEscape"}

\* C5 witness: a closed string containing a comment opener was read
C5_Witness ==
  \E k \in DOMAIN hist :
    /\ hist[k].pre = "InString" /\ hist[k].c \in {SLASH, HASH}
    /\ k + 1 \in DOMAIN hist /\ hist[k + 1].c \in {SLASH, STAR, HASH}
    /\ hist[k + 1].e = hist[k + 1].c
    /\ state = "Top"

\* C6: in a string a backslash leads to StringEscape; the byte after it,
\* whatever it is, leads back to InString and is emitted unchanged; so an
\* escaped quote does not close the string, and a quote after an escaped
\* backslash does.
C6_EscapeTransparency ==
  \A k \in DOMAIN hist :
    /\ (hist[k].pre = "InString" /\ hist[k].c = BACKSLASH) =>
         (hist[k].post = "StringEscape" /\ hist[k].e = BACKSLASH)
    /\ hist[k].pre = "StringEscape" =>
         (hist[k].post = "InString" /\ hist[k].e = hist[k].c)
    /\ (hist[k].pre = "InString" /\ hist[k].c = BACKSLASH /\ k + 2 \in DOMAIN hist
          /\ hist[k + 1].c = BACKSLASH /\ hist[k + 2].c = QUOTE) =>
         hist[k + 2].post = "Top"

\* C6 witness: a string with an escaped quote in it was read and then closed
C6_Witness ==
  \E k \in DOMAIN hist :
    /\ hist[k].pre = "StringEscape" /\ hist[k].c = QUOTE
    /\ k + 1 \in DOMAIN hist /\ hist[k + 1].c = QUOTE /\ hist[k + 1].post = "Top"

\* C7: a read() whose pull yields 0 bytes returns Ok(0) exactly when the
\* persisted state before the call is Top or InLineComment, and an error in
\* each of the five other states.
C7_EndOfStreamOutcome ==
  [][(result'.kind # "None" /\ result'.err # SourceError /\ Len(pulled') = 0) =>
       /\ result'.kind = "Ok" <=> state \in {"Top", "InLineComment"}
       /\ result'.kind = "Err" <=>
            state \in {"InString", "StringEscape", "InComment",
                       "InBlockComment", "MaybeCommentEnd"}
       /\ result'.n = 0]_vars

\* C7 witness: the source was exhausted inside a line comment and the read
\* returned Ok(0)
C7_Witness ==
  /\ result = Ok(0) /\ Len(pulled) = 0 /\ pos = Len(src) /\ Len(src) > 0
  /\ state = "InLineComment"

\* C8: InComment is entered only by '/' read in Top; from there '*' and '/'
\* are the only bytes that complete a step; any other byte makes read() fail
\* at that byte, and the per-byte transducer fails nowhere else: a call that
\* pulled bytes either completed a step for each of them or failed at the
\* first byte other than '*' and '/' met in InComment.
C8_UnexpectedForwardSlash ==
  /\ \A k \in DOMAIN hist :
       /\ hist[k].post = "InComment" => (hist[k].pre = "Top" /\ hist[k].c = SLASH)
       /\ hist[k].pre = "InComment" => hist[k].c \in {STAR, SLASH}
  /\ (result.kind = "Ok" /\ result.n > 0) =>
       /\ Len(hist) >= Len(pulled)
       /\ \A i \in 1..Len(pulled) : LastSteps(Len(pulled))[i].c = pulled[i]
  /\ (IsLexErr(result) /\ Len(pulled) > 0) =>
       /\ result.at \in 1..Len(pulled)
       /\ state = "InComment"
       /\ pulled[result.at] \notin {STAR, SLASH}
       /\ Len(hist) >= result.at - 1
       /\ \A i \in 1..(result.at - 1) : LastSteps(result.at - 1)[i].c = pulled[i]
       /\ result.at > 1 => hist[Len(hist)].post = "InComment"

\* C8 witness: read() failed in the middle of a chunk at a byte that follows
\* a top-level '/'
C8_Witness ==
  /\ IsBadByteErr(result) /\ result.at > 1 /\ result.at < Len(pulled)
  /\ pulled[result.at - 1] = SLASH
  /\ pulled[result.at] = LETTER
\* ---- reference lexer: which bytes of an input belong to a comment ----
\* ctx is the lexical context before byte i: code, str, esc, slash (after a
\* top-level '/'), block, star (after '*' in a block comment), line.
RefNext(ctx, c) ==
  CASE ctx = "code" -> IF c = QUOTE THEN "str"
                       ELSE IF c = SLASH THEN "slash"
                       ELSE IF c = HASH THEN "line" ELSE "code"
    [] ctx = "str" -> IF c = QUOTE THEN "code"
                      ELSE IF c = BACKSLASH THEN "esc" ELSE "str"
    [] ctx = "esc" -> "str"
    [] ctx = "slash" -> IF c = STAR THEN "block"
                        ELSE IF c = SLASH THEN "line" ELSE "code"
    [] ctx = "block" -> IF c = STAR THEN "star" ELSE "block"
    [] ctx = "star" -> IF c = SLASH THEN "code"
                       ELSE IF c = STAR THEN "star" ELSE "block"
    [] ctx = "line" -> IF c = NEWLINE THEN "code" ELSE "line"

\* TRUE when byte c, met in context ctx, is part of a comment
RefInComment(ctx, c) ==
  CASE ctx = "code" -> c \in {SLASH, HASH}
    [] ctx \in {"str", "esc"} -> FALSE
    [] ctx = "slash" -> c \in {STAR, SLASH}
    [] ctx \in {"block", "star"} -> TRUE
    [] ctx = "line" -> c # NEWLINE

RECURSIVE RefMask(_, _, _)
RefMask(s, i, ctx) ==
  IF i > Len(s) THEN <<>>
  ELSE <<RefInComment(ctx, s[i])>> \o RefMask(s, i + 1, RefNext(ctx, s[i]))

CommentMask(s) == RefMask(s, 1, "code")

\* the stream was read to a clean end: every byte delivered, no call failed
CleanEnd == result = Ok(0) /\ pos = Len(src) /\ lexErrs = 0

\* C1: when read() has processed the input to a clean end of stream, every
\* byte of a comment (opener, content, closing "*/", not the newline ending a
\* line comment) is a space in the output and every other byte is the input
\* byte at the same position.
C1_Blanking ==
  CleanEnd =>
    /\ Len(out) = Len(src)
    /\ \A i \in 1..Len(src) :
         out[i] = IF CommentMask(src)[i] THEN SPACE ELSE src[i]

\* TRUE when the completed steps k and k+1 read '*' and then '/'
StarSlashAt(k) ==
  /\ k \in DOMAIN hist /\ k + 1 \in DOMAIN hist
  /\ hist[k].c = STAR /\ hist[k + 1].c = SLASH

\* C3: once "/*" has been read at top level (step j completes the opener),
\* the first '*' '/' pair after it returns the state to Top, also when that
\* '*' follows other '*' bytes.
C3_BlockCommentEndsAtFirstStarSlash ==
  \A j \in DOMAIN hist :
    (hist[j].pre = "InComment" /\ hist[j].c = STAR) =>
      \A k \in (j + 1)..Len(hist) :
        (StarSlashAt(k) /\ \A m \in (j + 1)..(k - 1) : ~StarSlashAt(m)) =>
          hist[k + 1].post = "Top"

\* ---- the whole input delivered in one pull, then the pull that yields 0 ----
OnePull(input) ==
  LET r1 == ReadChunk("Top", input)
      r2 == ReadChunk(r1.state, <<>>)
  IN IF IsFinal(r1.result)
     THEN [out |-> IF r1.result.kind = "Ok" THEN r1.buf ELSE <<>>,
           buf |-> r1.buf, state |-> r1.state, result |-> r1.result]
     ELSE [out |-> r1.buf, buf |-> r1.buf, state |-> r2.state, result |-> r2.result]

\* the call that just returned is the first to end the stream, every pull so
\* far was made with a non-empty buffer and the source never failed
AtFirstFinal == finals = 1 /\ IsFinal(result) /\ ~sawEmptyBuf /\ srcErrs = 0

\* C4 as stated: however the input is split into non-empty pulls, the
\* concatenated output, the final state and the final outcome equal those of
\* the one-pull run.
C4_ChunkIndependence ==
  AtFirstFinal =>
    /\ out = OnePull(src).out
    /\ state = OnePull(src).state
    /\ result.kind = OnePull(src).result.kind
    /\ result.err = OnePull(src).result.err

\* C4 amended: the final state and outcome equal those of the one-pull run;
\* the concatenated output equals it too unless the stream ends with the
\* bad-byte error, where the caller has received the output of the pulls
\* before the failing one (a prefix of the one-pull buffer) and the one-pull
\* run delivers nothing.
C4_ChunkIndependenceAmended ==
  AtFirstFinal =>
    /\ state = OnePull(src).state
    /\ result.kind = OnePull(src).result.kind
    /\ result.err = OnePull(src).result.err
    /\ IsBadByteErr(result) <=> IsBadByteErr(OnePull(src).result)
    /\ IF IsBadByteErr(result)
       THEN /\ OnePull(src).out = <<>>
            /\ Len(out) = pos - Len(pulled)
            /\ out = SubSeq(OnePull(src).buf, 1, Len(out))
       ELSE out = OnePull(src).out

\* C4 witness: a block comment was split between its closing '*' and '/',
\* the pull that began on that '/' then failed on a bad byte after a later
\* top-level '/', and the caller holds the output of the earlier pulls
C4_Witness ==
  /\ AtFirstFinal /\ IsBadByteErr(result) /\ result.at = 3
  /\ Len(out) = pos - Len(pulled) /\ Len(out) >= 3
  /\ hist[Len(out)].post = "MaybeCommentEnd"
  /\ hist[Len(out) + 1].post = "Top"
  /\ OnePull(src).out = <<>>

\* the lexical error condition behind an error result r returned in state st
ErrCondition(st, r) ==
  IF r.at > 0 THEN "UnexpectedForwardSlash"
  ELSE IF st \in {"InString", "StringEscape"} THEN "IncompleteString"
  ELSE "IncompleteComment"

\* C9 as stated: two calls that fail under different lexical error conditions
\* return different error values.
C9_DistinctErrorValues ==
  [][(IsLexErr(result) /\ IsLexErr(result')
        /\ ErrCondition(state, result) # ErrCondition(state', result'))
      => result.err # result'.err]_vars

\* C9 amended: each of the three conditions is reported, and all with the one
\* value InvalidData: a failing call either met end of input in InString,
\* StringEscape, InComment, InBlockComment or MaybeCommentEnd, or met a byte
\* other than '*' and '/' in InComment.
C9_OneErrorValue ==
  IsLexErr(result) =>
    /\ result.err = "InvalidData"
    /\ result.at = 0 =>
         /\ Len(pulled) = 0
         /\ state \in {"InString", "StringEscape", "InComment",
                       "InBlockComment", "MaybeCommentEnd"}
    /\ result.at > 0 =>
         /\ state = "InComment"
         /\ pulled[result.at] \notin {STAR, SLASH}

\* C9 witness: an end-of-input failure in InComment that follows a bad-byte
\* failure (bytes of the failed chunk were never stepped over)
C9_Witness ==
  /\ IsEofErr(result) /\ state = "InComment" /\ pos = Len(src)
  /\ lexErrs = 2 /\ Len(hist) < pos

\* C10: read() returns the end-of-stream error only when the wrapped source
\* has no more bytes to deliver.
C10_EofErrorOnlyAtEnd ==
  IsEofErr(result) => pos = Len(src)
\* the last call was a read() whose pull yielded 0 bytes
ZeroPull == result.kind # "None" /\ result.err # SourceError /\ Len(pulled) = 0

\* C11 as stated, for a caller that never passes an empty buffer: the
\* end-of-stream test is evaluated once per stream, when the wrapped source
\* first reports no more bytes, and never again.
C11_EndCheckOnce ==
  ~sawEmptyBuf =>
    /\ endChecks <= 1
    /\ endChecks = 1 => pos = Len(src)

\* C11 amended: the end-of-stream test is evaluated by every read() whose
\* pull yields 0 bytes and by no other; it leaves the state alone, so each
\* further call after exhaustion evaluates it again with the same answer.
C11_EndCheckOnEveryZeroPull ==
  [][/\ (result'.kind # "None" /\ result'.err # SourceError /\ Len(pulled') = 0) =>
          /\ endChecks' = endChecks + 1
          /\ state' = state
          /\ result' = IF state \in {"Top", "InLineComment"}
                       THEN Ok(0) ELSE Err("InvalidData", 0)
     /\ Len(pulled') > 0 => endChecks' = endChecks
     /\ (ZeroPull /\ pos = Len(src) /\ endChecks' = endChecks + 1) => result' = result
    ]_vars

\* C11 witness: the source was exhausted in an unclosed string, the test
\* failed, and the next call evaluated it a second time
C11_Witness ==
  /\ endChecks = 2 /\ ~sawEmptyBuf /\ pos = Len(src) /\ Len(hist) = Len(src)
  /\ IsEofErr(result) /\ lexErrs = 2 /\ state = "InString"
\* C12: when the wrapped source's read fails, read() returns that error
\* unchanged, leaves the lexical state as it was before the call and runs no
\* transducer step (nor the end-of-stream test); nothing reaches the caller.
C12_SourceErrorPassedThrough ==
  [][srcErrs' = srcErrs + 1 =>
       /\ result' = [kind |-> "Err", n |-> 0, err |-> "SourceError", at |-> 0]
       /\ state' = state
       /\ hist' = hist
       /\ endChecks' = endChecks
       /\ lexErrs' = lexErrs
       /\ out' = out
       /\ pos' = pos]_vars

\* C12 witness: the source failed in the middle of a block comment, with
\* input still to come
C12_Witness ==
  /\ result.kind = "Err" /\ result.err = SourceError /\ srcErrs = 1
  /\ state = "InBlockComment" /\ Len(hist) >= 2 /\ pos < Len(src)
\* C13: InLineComment is entered by '#' in Top or by '/' in InComment; in it
\* a newline is emitted unchanged and leads to Top, every other byte becomes
\* a space and keeps the state; end of input in it is a clean end, Ok(0).
C13_LineComment ==
  /\ \A k \in DOMAIN hist :
       /\ (hist[k].post = "InLineComment" /\ hist[k].pre # "InLineComment") =>
            \/ hist[k].pre = "Top" /\ hist[k].c = HASH
            \/ hist[k].pre = "InComment" /\ hist[k].c = SLASH
       /\ (hist[k].pre = "Top" /\ hist[k].c = HASH) => hist[k].post = "InLineComment"
       /\ (hist[k].pre = "InComment" /\ hist[k].c = SLASH) => hist[k].post = "InLineComment"
       /\ (hist[k].pre = "InLineComment" /\ hist[k].c = NEWLINE) =>
            (hist[k].post = "Top" /\ hist[k].e = NEWLINE)
       /\ (hist[k].pre = "InLineComment" /\ hist[k].c # NEWLINE) =>
            (hist[k].post = "InLineComment" /\ hist[k].e = SPACE)
  /\ (ZeroPull /\ state = "InLineComment") => result = Ok(0)

\* C13 witness: a '#' comment with content was closed by a newline, which
\* came out unchanged after a blanked byte
C13_Witness ==
  \E k \in DOMAIN hist :
    /\ k >= 3 /\ Len(out) = Len(hist)
    /\ hist[k].pre = "InLineComment" /\ hist[k].c = NEWLINE /\ hist[k].post = "Top"
    /\ out[k] = NEWLINE
    /\ hist[k - 1].pre = "InLineComment" /\ hist[k - 1].c \notin {SPACE, NEWLINE}
    /\ out[k - 1] = SPACE
    /\ hist[k - 2].pre = "Top" /\ hist[k - 2].c = HASH
\* C14: every byte read in MaybeCommentEnd is replaced by a space, whether it
\* is the '/' that closes the comment or not.
C14_MaybeCommentEndBlanks ==
  \A k \in DOMAIN hist : hist[k].pre = "MaybeCommentEnd" => hist[k].e = SPACE
\* the context the reference lexer is in after bytes i.. of s, from ctx
RECURSIVE RefFold(_, _, _)
RefFold(s, i, ctx) ==
  IF i > Len(s) THEN ctx ELSE RefFold(s, i + 1, RefNext(ctx, s[i]))

\* the State that stands for a context of the reference lexer
StateOfCtx(ctx) ==
  CASE ctx = "code" -> "Top"
    [] ctx = "str" -> "InString"
    [] ctx = "esc" -> "StringEscape"
    [] ctx = "slash" -> "InComment"
    [] ctx = "block" -> "InBlockComment"
    [] ctx = "star" -> "MaybeCommentEnd"
    [] ctx = "line" -> "InLineComment"

\* C15: while no call has failed (so the bytes returned are the bytes
\* delivered), the persisted state is the fold of the transition table over
\* the bytes returned so far, starting from Top; and in Top '"' leads to
\* InString (emitted), '/' to InComment and '#' to InLineComment (blanked),
\* every other byte is emitted unchanged and stays in Top.
C15_StateIsTableFold ==
  /\ lexErrs = 0 => state = StateOfCtx(RefFold(SubSeq(src, 1, pos), 1, "code"))
  /\ hist = <<>> => state = "Top"
  /\ \A k \in DOMAIN hist :
       hist[k].pre = "Top" =>
         /\ hist[k].c = QUOTE => (hist[k].post = "InString" /\ hist[k].e = QUOTE)
         /\ hist[k].c = SLASH => (hist[k].post = "InComment" /\ hist[k].e = SPACE)
         /\ hist[k].c = HASH => (hist[k].post = "InLineComment" /\ hist[k].e = SPACE)
         /\ hist[k].c \notin {QUOTE, SLASH, HASH} =>
              (hist[k].post = "Top" /\ hist[k].e = hist[k].c)
\* C16: each read() makes one pull (the source advances by exactly the bytes
\* it wrote) and completes at most one transducer step per byte pulled, none
\* when the pull yields 0 bytes; and a caller that keeps reading sees the
\* stream finish: some call returns Ok(0) or an error.
C16_EveryStreamFinishes ==
  /\ [][/\ pos' = pos + Len(pulled')
        /\ Len(hist') <= Len(hist) + Len(pulled')
        /\ result'.kind = "Ok" => Len(hist') = Len(hist) + Len(pulled')]_vars
  /\ <>(finals >= 1 /\ IsFinal(result))

\* C16 witness: a six-byte input read with non-empty buffers from a source
\* that never failed came to its end in a call that pulled 0 bytes
C16_Witness ==
  /\ finals = 1 /\ result = Ok(0) /\ ~sawEmptyBuf /\ srcErrs = 0
  /\ Len(src) = 6 /\ pos = 6 /\ Len(hist) = 6
\* C17: a lexical error does not poison the adapter. A call that fails on a
\* bad byte leaves the state InComment, a call that fails at end of stream
\* leaves the state as it was, and the next call continues from there: after
\* a bad-byte failure a pull that starts with '*' or '/' completes the step
\* from InComment (and succeeds if that byte is all it pulled), and after an
\* end-of-stream failure another pull of 0 bytes returns the same error.
C17_NotPoisoned ==
  [][/\ IsBadByteErr(result') => state' = "InComment"
     /\ IsEofErr(result') => state' = state
     /\ (IsBadByteErr(result) /\ Len(pulled') > 0 /\ pulled'[1] \in {STAR, SLASH}) =>
          /\ Len(hist') > Len(hist)
          /\ hist'[Len(hist) + 1] =
               [pre |-> "InComment", c |-> pulled'[1],
                post |-> IF pulled'[1] = STAR THEN "InBlockComment" ELSE "InLineComment",
                e |-> SPACE]
          /\ Len(pulled') = 1 => result' = Ok(1)
     /\ (IsEofErr(result) /\ endChecks' = endChecks + 1) =>
          (result' = result /\ state' = state)
    ]_vars

\* C17 witness: after a call failed on a bad byte, the next call pulled '*'
\* alone, succeeded and entered the block comment
C17_Witness ==
  /\ lexErrs = 1 /\ result = Ok(1) /\ pulled = <<STAR>> /\ buf = <<SPACE>>
  /\ state = "InBlockComment" /\ Len(hist) < pos
  /\ hist[Len(hist)].pre = "InComment"
\* C18: when read() fails on a bad byte at index at of the chunk, the bytes
\* before it have been stepped over (the steps are recorded in order, start
\* from the state before the call, and the buffer holds what they emitted)
\* and the state is the one after the last of them; the bad byte and the
\* bytes after it are in the buffer as the source wrote them and no step was
\* taken for them; the call returns no count and the caller's output does
\* not grow.
C18_PartlyTransformedBuffer ==
  [][IsBadByteErr(result') =>
       LET at == result'.at IN
       /\ at \in 1..Len(pulled')
       /\ Len(hist') = Len(hist) + at - 1
       /\ \A i \in 1..(at - 1) :
            /\ hist'[Len(hist) + i].c = pulled'[i]
            /\ hist'[Len(hist) + i].e = buf'[i]
            /\ hist'[Len(hist) + i].pre =
                 IF i = 1 THEN state ELSE hist'[Len(hist) + i - 1].post
       /\ state' = IF at = 1 THEN state ELSE hist'[Len(hist')].post
       /\ \A i \in at..Len(pulled') : buf'[i] = pulled'[i]
       /\ result'.n = 0
       /\ out' = out
       /\ pos' = pos + Len(pulled')]_vars

\* C18 witness: a chunk failed in its middle; a comment byte before the bad
\* byte is blanked in the buffer, and a '#' or '/' after the bad byte is not
C18_Witness ==
  /\ IsBadByteErr(result) /\ result.at >= 2 /\ result.at < Len(pulled)
  /\ pulled[result.at - 1] = SLASH /\ buf[result.at - 1] = SPACE
  /\ pulled[result.at] \notin {SPACE, STAR, SLASH}
  /\ buf[result.at] = pulled[result.at]
  /\ pulled[result.at + 1] \in {SLASH, HASH}
  /\ buf[result.at + 1] = pulled[result.at + 1]
  /\ out = <<>> /\ state = "InComment"
\* C19: when the input has been processed to a clean end, a fresh adapter fed
\* the output also ends cleanly and returns that output unchanged.
C19_Idempotent ==
  CleanEnd =>
    /\ OnePull(out).result = Ok(0)
    /\ OnePull(out).out = out

\* C20: a '"' read in InBlockComment, MaybeCommentEnd or InLineComment never
\* leads to InString; in a line comment nothing but a newline changes the
\* state, so "/*" opens no block comment there; a newline in a block comment
\* is blanked and does not end it; a block comment is left only by the '/'
\* of "*/" and a line comment only by a newline.
C20_CommentsOpaque ==
  \A k \in DOMAIN hist :
    /\ hist[k].pre \in {"InBlockComment", "MaybeCommentEnd", "InLineComment"} =>
         hist[k].post \in {"InBlockComment", "MaybeCommentEnd", "InLineComment", "Top"}
    /\ hist[k].pre = "InLineComment" =>
         /\ hist[k].post \in {"InLineComment", "Top"}
         /\ hist[k].post = "Top" <=> hist[k].c = NEWLINE
    /\ (hist[k].pre \in {"InBlockComment", "MaybeCommentEnd"} /\ hist[k].c = NEWLINE) =>
         (hist[k].e = SPACE /\ hist[k].post = "InBlockComment")
    /\ (hist[k].pre \in {"InBlockComment", "MaybeCommentEnd"}
          /\ hist[k].post \notin {"InBlockComment", "MaybeCommentEnd"}) =>
         /\ hist[k].post = "Top" /\ hist[k].c = SLASH
         /\ k > 1 /\ hist[k - 1].c = STAR
====
